---- MODULE Spec2Model ----
(***************************************************************************)
(* Model of the capability mixins of the SinricPro device SDK:             *)
(*   ThermostatController  (src/src/Capabilities/ThermostatController.h)   *)
(*   RangeController       (src/unnamed/part_000)                          *)
(*   AirQualityEventSource (src/src/EventSource/AirQualityEventSource.h)   *)
(*                                                                         *)
(* Temperatures are C++ floats.  They are modelled in hundredths of a      *)
(* degree (21.27 is 2127), so that the tenths rounding of the event path   *)
(* has something to round.  JSON objects are functions from a set of keys. *)
(* A host callback is an identity (which std::function is stored) plus a   *)
(* behaviour chosen by the host at the call: what it writes through its    *)
(* reference parameter and what it returns.                                *)
(***************************************************************************)
EXTENDS Integers, Sequences, FiniteSets, TLC

VARIABLES
  bases,                            \* the device's capability base classes, in declaration order
  requestHandlers,                  \* T::requestHandlers, filled by the constructors
  thermostatModeCallback,           \* ThermostatController private members
  targetTemperatureCallback,
  adjustTargetTemperatureCallback,
  setRangeValueCallback,            \* RangeController private members
  genericSetRangeValueCallback,
  adjustRangeValueCallback,
  genericAdjustRangeValueCallback,
  request,                          \* the SinricProRequest being dispatched
  calls,                            \* calls the last operation made to host callbacks
  offers,                           \* handler calls the device's dispatcher made for the request
  deviceCalls,                      \* calls the last operation made to the device
  success,                          \* value returned by the last handler / send operation
  lastOp,                           \* name of the last operation
  sendArgs,                         \* arguments of the last send operation
  lastRegistered,                   \* history: key -> callback of the latest on<Action> call
  replaced,                         \* history: key -> callback the latest call replaced
  nRegs                             \* number of on<Action> calls made so far

vars == <<bases, requestHandlers, thermostatModeCallback, targetTemperatureCallback,
          adjustTargetTemperatureCallback, setRangeValueCallback,
          genericSetRangeValueCallback, adjustRangeValueCallback,
          genericAdjustRangeValueCallback, request, calls, offers, deviceCalls,
          success, lastOp, sendArgs, lastRegistered, replaced, nRegs>>

deviceVars == <<bases, requestHandlers>>

thermostatVars == <<thermostatModeCallback, targetTemperatureCallback,
                    adjustTargetTemperatureCallback>>
rangeVars == <<setRangeValueCallback, genericSetRangeValueCallback,
               adjustRangeValueCallback, genericAdjustRangeValueCallback>>

----------------------------------------------------------------------------
(* Bounds of the model *)

MaxRegs == 2            \* on<Action> calls explored per behaviour
MaxRangeValue == 3      \* range values sent in events are 0..MaxRangeValue

(* Input domains *)

DeviceId == "device1"
\* The orders in which a device can list the two capabilities as base classes.
BaseOrders == {<<"ThermostatController", "RangeController", "AirQualityEventSource">>,
               <<"RangeController", "AirQualityEventSource", "ThermostatController">>}
Null == "null"                                 \* an empty std::function
CallbackIds == {"cb1", "cb2"}                  \* host functions that can be registered
Instances == {"instance1", "instance2"}
NoInstance == ""
ThermostatActions == {"targetTemperature", "adjustTargetTemperature", "setThermostatMode"}
RangeActions == {"setRangeValue", "adjustRangeValue"}
OtherActions == {"setPowerState"}
Modes == {"COOL", "HEAT"}
RequestModes == {"COOL"}
CallbackModes == {"HEAT"}
Causes == {"PHYSICAL_INTERACTION", "PERIODIC_POLL"}
RequestTemps == {2000, 2127}                   \* 20 and 21.27
CallbackTemps == {2200}                        \* 22.0
EventTemps == {2127, 2124, 2125, 2175, 2000, 5, -5, -2125, -2127, -2124}
RequestRangeValues == {1}
RequestRangeDeltas == {-1}
CallbackRangeValues == {2}
EventRangeValues == 0..MaxRangeValue
PmValues == {5, 10, 20}

----------------------------------------------------------------------------
(* JSON objects (ArduinoJson JsonObject) *)

EmptyObj == [k \in {} |-> 0]
containsKey(obj, k) == k \in DOMAIN obj
Put(obj, k, v) == [x \in (DOMAIN obj) \cup {k} |-> IF x = k THEN v ELSE obj[x]]
\* obj[k] | dflt : the member's value, or dflt when the member is missing
OrDefault(obj, k, dflt) == IF containsKey(obj, k) THEN obj[k] ELSE dflt

Obj1(k, v) == [x \in {k} |-> v]
\* float f = obj[k] : ArduinoJson converts a missing member to 0
AsFloat(obj, k) == IF containsKey(obj, k) THEN obj[k] ELSE 0

----------------------------------------------------------------------------
(* Host callbacks *)

\* What the host function does at one call: the value it leaves in its
\* reference parameter (written or untouched) and the boolean it returns.
Behaviours(vals) == [ret : BOOLEAN, write : BOOLEAN, val : vals]
Invoke(beh, v) == IF beh.write THEN beh.val ELSE v
\* One call of the std::function stored in member `slot`, as the host sees it.
Call(slot, cb, args, beh) ==
  [slot |-> slot, cb |-> cb, args |-> args,
   out |-> Invoke(beh, args[Len(args)]), ret |-> beh.ret]

\* What a handler hands back: the request (response_value possibly written),
\* its return value and the callbacks it invoked, in order.
Handled(req, ok, cs) == [request |-> req, success |-> ok, calls |-> cs]
Respond(req, k, v) == [req EXCEPT !.response_value = Put(@, k, v)]

DefaultTemperature == 100      \* temperature = 1; (in hundredths)

----------------------------------------------------------------------------
(* ThermostatController *)

\* The constructor: requestHandlers.push_back(std::bind(&handleThermostatController, ...))
ThermostatController(handlers) == Append(handlers, "handleThermostatController")

onThermostatMode(cb) == cb
onTargetTemperature(cb) == cb
onAdjustTargetTemperature(cb) == cb

\* Faulty variant: the callback is handed a copy, so the response reports the
\* value parsed from the request instead of the one the callback left.
InvokeAndRespond_ByValue(req, slot, cb, value, key, beh) ==
  LET c == Call(slot, cb, <<DeviceId, value>>, beh)
  IN  Handled(Respond(req, key, value), c.ret, <<c>>)

\* success = callback(device.deviceId, value);
\* request.response_value[key] = value;  return success;
InvokeAndRespond(req, slot, cb, value, key, beh) ==
  LET c == Call(slot, cb, <<DeviceId, value>>, beh)
  IN  Handled(Respond(req, key, c.out), c.ret, <<c>>)

\* Faulty variant: a matched action is answered even when no callback is
\* registered for it (the value parsed from the request is echoed).
handleThermostatController_Echo(req, beh) ==
  IF req.action = "targetTemperature" THEN
    LET temperature == IF containsKey(req.request_value, "temperature")
                       THEN req.request_value["temperature"]
                       ELSE DefaultTemperature
    IN  IF targetTemperatureCallback # Null
        THEN InvokeAndRespond(req, "targetTemperatureCallback",
                              targetTemperatureCallback, temperature, "temperature", beh)
        ELSE Handled(Respond(req, "temperature", temperature), FALSE, <<>>)
  ELSE IF req.action = "adjustTargetTemperature" THEN
    LET temperatureDelta == AsFloat(req.request_value, "temperature")
    IN  IF adjustTargetTemperatureCallback # Null
        THEN InvokeAndRespond(req, "adjustTargetTemperatureCallback",
                              adjustTargetTemperatureCallback,
                              temperatureDelta, "temperature", beh)
        ELSE Handled(Respond(req, "temperature", temperatureDelta), FALSE, <<>>)
  ELSE IF req.action = "setThermostatMode" THEN
    LET thermostatMode == OrDefault(req.request_value, "thermostatMode", "")
    IN  IF thermostatModeCallback # Null
        THEN InvokeAndRespond(req, "thermostatModeCallback", thermostatModeCallback,
                              thermostatMode, "thermostatMode", beh)
        ELSE Handled(Respond(req, "thermostatMode", thermostatMode), FALSE, <<>>)
  ELSE Handled(req, FALSE, <<>>)

\* Faulty variant: a missing temperature is read as the zero ArduinoJson gives
\* for a missing member, as the adjust branch does.
handleThermostatController_DefaultZero(req, beh) ==
  IF req.action = "targetTemperature" /\ targetTemperatureCallback # Null THEN
    LET temperature == AsFloat(req.request_value, "temperature")
    IN  InvokeAndRespond(req, "targetTemperatureCallback", targetTemperatureCallback,
                         temperature, "temperature", beh)
  ELSE IF req.action = "adjustTargetTemperature" /\ adjustTargetTemperatureCallback # Null THEN
    LET temperatureDelta == AsFloat(req.request_value, "temperature")
    IN  InvokeAndRespond(req, "adjustTargetTemperatureCallback",
                         adjustTargetTemperatureCallback,
                         temperatureDelta, "temperature", beh)
  ELSE IF req.action = "setThermostatMode" /\ thermostatModeCallback # Null THEN
    LET thermostatMode == OrDefault(req.request_value, "thermostatMode", "")
    IN  InvokeAndRespond(req, "thermostatModeCallback", thermostatModeCallback,
                         thermostatMode, "thermostatMode", beh)
  ELSE Handled(req, FALSE, <<>>)

\* Faulty variant: an adjust request without a temperature member is
\* rejected before the callback is called.
handleThermostatController_RejectMissing(req, beh) ==
  IF req.action = "targetTemperature" /\ targetTemperatureCallback # Null THEN
    LET temperature == IF containsKey(req.request_value, "temperature")
                       THEN req.request_value["temperature"]
                       ELSE DefaultTemperature
    IN  InvokeAndRespond(req, "targetTemperatureCallback", targetTemperatureCallback,
                         temperature, "temperature", beh)
  ELSE IF req.action = "adjustTargetTemperature" /\ adjustTargetTemperatureCallback # Null THEN
    IF containsKey(req.request_value, "temperature")
    THEN InvokeAndRespond(req, "adjustTargetTemperatureCallback",
                          adjustTargetTemperatureCallback,
                          req.request_value["temperature"], "temperature", beh)
    ELSE Handled(req, FALSE, <<>>)
  ELSE IF req.action = "setThermostatMode" /\ thermostatModeCallback # Null THEN
    LET thermostatMode == OrDefault(req.request_value, "thermostatMode", "")
    IN  InvokeAndRespond(req, "thermostatModeCallback", thermostatModeCallback,
                         thermostatMode, "thermostatMode", beh)
  ELSE Handled(req, FALSE, <<>>)

handleThermostatController(req, beh) ==
  IF req.action = "targetTemperature" /\ targetTemperatureCallback # Null THEN
    LET temperature == IF containsKey(req.request_value, "temperature")
                       THEN req.request_value["temperature"]
                       ELSE DefaultTemperature
    IN  InvokeAndRespond(req, "targetTemperatureCallback", targetTemperatureCallback,
                         temperature, "temperature", beh)
  ELSE IF req.action = "adjustTargetTemperature" /\ adjustTargetTemperatureCallback # Null THEN
    LET temperatureDelta == AsFloat(req.request_value, "temperature")
    IN  InvokeAndRespond(req, "adjustTargetTemperatureCallback",
                         adjustTargetTemperatureCallback,
                         temperatureDelta, "temperature", beh)
  ELSE IF req.action = "setThermostatMode" /\ thermostatModeCallback # Null THEN
    LET thermostatMode == OrDefault(req.request_value, "thermostatMode", "")
    IN  InvokeAndRespond(req, "thermostatModeCallback", thermostatModeCallback,
                         thermostatMode, "thermostatMode", beh)
  ELSE Handled(req, FALSE, <<>>)

----------------------------------------------------------------------------
(* RangeController *)

\* Faulty variant: the handler is put at the front of the list.
RangeController_PushFront(handlers) == <<"handleRangeController">> \o handlers

\* The constructor: requestHandlers.push_back(std::bind(&handleRangeController, ...))
RangeController(handlers) == Append(handlers, "handleRangeController")

onRangeValue(cb) == cb
\* Faulty variant: an instance that already has a callback keeps it
\* (what std::map::insert would do).
onRangeValueInstance_KeepFirst(instance, cb) ==
  [i \in (DOMAIN genericSetRangeValueCallback) \cup {instance} |->
     IF i \in DOMAIN genericSetRangeValueCallback
     THEN genericSetRangeValueCallback[i] ELSE cb]
onRangeValueInstance(instance, cb) ==
  [i \in (DOMAIN genericSetRangeValueCallback) \cup {instance} |->
     IF i = instance THEN cb ELSE genericSetRangeValueCallback[i]]
onAdjustRangeValue(cb) == cb
\* Faulty variant: the map is rebuilt with the new entry alone.
onAdjustRangeValueInstance_Reset(instance, cb) == [i \in {instance} |-> cb]
onAdjustRangeValueInstance(instance, cb) ==
  [i \in (DOMAIN genericAdjustRangeValueCallback) \cup {instance} |->
     IF i = instance THEN cb ELSE genericAdjustRangeValueCallback[i]]

\* Faulty variant: a request for an instance without a callback of its own
\* falls back to the scalar callback.
SelectAndInvoke_Fallback(req, value, generic, genericSlot, scalar, scalarSlot, beh) ==
  IF req.instance # "" /\ req.instance \in DOMAIN generic
  THEN <<Call(genericSlot, generic[req.instance],
              <<DeviceId, req.instance, value>>, beh)>>
  ELSE IF scalar # Null
       THEN <<Call(scalarSlot, scalar, <<DeviceId, value>>, beh)>>
       ELSE <<>>

\* The callback selection both range actions share: the map entry of the
\* request's instance when the instance is not empty, the scalar callback
\* otherwise; the calls made (none or one).
SelectAndInvoke(req, value, generic, genericSlot, scalar, scalarSlot, beh) ==
  IF req.instance # "" THEN
    IF req.instance \in DOMAIN generic
    THEN <<Call(genericSlot, generic[req.instance],
                <<DeviceId, req.instance, value>>, beh)>>
    ELSE <<>>
  ELSE
    IF scalar # Null
    THEN <<Call(scalarSlot, scalar, <<DeviceId, value>>, beh)>>
    ELSE <<>>

\* std::map::operator[] : the entry of key, created empty when there is none
Subscript(map, key) ==
  [i \in (DOMAIN map) \cup {key} |-> IF i \in DOMAIN map THEN map[i] ELSE Null]

\* Faulty variant: the map is subscripted without looking the instance up first.
MapAfterSelect_NoFind(req, generic) ==
  IF req.instance # "" THEN Subscript(generic, req.instance) ELSE generic

\* The map as the selection leaves it: it is subscripted only with an
\* instance that find() has found.
MapAfterSelect(req, generic) ==
  IF req.instance # "" /\ req.instance \in DOMAIN generic
  THEN Subscript(generic, req.instance)
  ELSE generic

\* Faulty variant: nothing is reported when no callback ran.
RespondRange_OnlyWhenInvoked(req, value, cs) ==
  IF cs = <<>> THEN Handled(req, FALSE, cs)
  ELSE Handled(Respond(req, "rangeValue", cs[1].out), cs[1].ret, cs)

\* Faulty variant: the response reports the value parsed from the request
\* instead of the one the callback left.
RespondRange_Requested(req, value, cs) ==
  IF cs = <<>> THEN Handled(Respond(req, "rangeValue", value), FALSE, cs)
  ELSE Handled(Respond(req, "rangeValue", value), cs[1].ret, cs)

\* Faulty variant: an adjust request is answered under the key it was asked under.
RespondRange_DeltaKey(req, value, cs) ==
  LET key == IF req.action = "adjustRangeValue" THEN "rangeValueDelta" ELSE "rangeValue"
  IN  IF cs = <<>> THEN Handled(Respond(req, key, value), FALSE, cs)
      ELSE Handled(Respond(req, key, cs[1].out), cs[1].ret, cs)

\* request.response_value["rangeValue"] = value;  return success;
\* value is what the callback left, success what it returned (false if none ran).
RespondRange(req, value, cs) ==
  IF cs = <<>> THEN Handled(Respond(req, "rangeValue", value), FALSE, cs)
  ELSE Handled(Respond(req, "rangeValue", cs[1].out), cs[1].ret, cs)

\* Faulty variant: the response is written for any action.
handleRangeController_AnyAction(req, beh) ==
  IF req.action = "setRangeValue" THEN
    LET rangeValue == OrDefault(req.request_value, "rangeValue", 0)
    IN  RespondRange(req, rangeValue,
          SelectAndInvoke(req, rangeValue,
                          genericSetRangeValueCallback, "genericSetRangeValueCallback",
                          setRangeValueCallback, "setRangeValueCallback", beh))
  ELSE IF req.action = "adjustRangeValue" THEN
    LET rangeValueDelta == OrDefault(req.request_value, "rangeValueDelta", 0)
    IN  RespondRange(req, rangeValueDelta,
          SelectAndInvoke(req, rangeValueDelta,
                          genericAdjustRangeValueCallback, "genericAdjustRangeValueCallback",
                          adjustRangeValueCallback, "adjustRangeValueCallback", beh))
  ELSE Handled(Respond(req, "rangeValue", 0), FALSE, <<>>)

\* Faulty variant: a missing rangeValue is read as 1, the thermostat's default.
handleRangeController_DefaultOne(req, beh) ==
  IF req.action = "setRangeValue" THEN
    LET rangeValue == OrDefault(req.request_value, "rangeValue", 1)
    IN  RespondRange(req, rangeValue,
          SelectAndInvoke(req, rangeValue,
                          genericSetRangeValueCallback, "genericSetRangeValueCallback",
                          setRangeValueCallback, "setRangeValueCallback", beh))
  ELSE IF req.action = "adjustRangeValue" THEN
    LET rangeValueDelta == OrDefault(req.request_value, "rangeValueDelta", 0)
    IN  RespondRange(req, rangeValueDelta,
          SelectAndInvoke(req, rangeValueDelta,
                          genericAdjustRangeValueCallback, "genericAdjustRangeValueCallback",
                          adjustRangeValueCallback, "adjustRangeValueCallback", beh))
  ELSE Handled(req, FALSE, <<>>)

\* Faulty variant: the set branch also claims the thermostat's targetTemperature.
handleRangeController_ClaimsTemperature(req, beh) ==
  IF req.action \in {"setRangeValue", "targetTemperature"} THEN
    LET rangeValue == OrDefault(req.request_value, "rangeValue", 0)
    IN  RespondRange(req, rangeValue,
          SelectAndInvoke(req, rangeValue,
                          genericSetRangeValueCallback, "genericSetRangeValueCallback",
                          setRangeValueCallback, "setRangeValueCallback", beh))
  ELSE IF req.action = "adjustRangeValue" THEN
    LET rangeValueDelta == OrDefault(req.request_value, "rangeValueDelta", 0)
    IN  RespondRange(req, rangeValueDelta,
          SelectAndInvoke(req, rangeValueDelta,
                          genericAdjustRangeValueCallback, "genericAdjustRangeValueCallback",
                          adjustRangeValueCallback, "adjustRangeValueCallback", beh))
  ELSE Handled(req, FALSE, <<>>)

\* The two maps as handleRangeController leaves them: each is touched only by
\* the branch of its own action.
genericSetAfter(req) ==
  IF req.action = "setRangeValue"
  THEN MapAfterSelect(req, genericSetRangeValueCallback)
  ELSE genericSetRangeValueCallback
genericAdjustAfter(req) ==
  IF req.action = "adjustRangeValue"
  THEN MapAfterSelect(req, genericAdjustRangeValueCallback)
  ELSE genericAdjustRangeValueCallback

handleRangeController(req, beh) ==
  IF req.action = "setRangeValue" THEN
    LET rangeValue == OrDefault(req.request_value, "rangeValue", 0)
    IN  RespondRange(req, rangeValue,
          SelectAndInvoke(req, rangeValue,
                          genericSetRangeValueCallback, "genericSetRangeValueCallback",
                          setRangeValueCallback, "setRangeValueCallback", beh))
  ELSE IF req.action = "adjustRangeValue" THEN
    LET rangeValueDelta == OrDefault(req.request_value, "rangeValueDelta", 0)
    IN  RespondRange(req, rangeValueDelta,
          SelectAndInvoke(req, rangeValueDelta,
                          genericAdjustRangeValueCallback, "genericAdjustRangeValueCallback",
                          adjustRangeValueCallback, "adjustRangeValueCallback", beh))
  ELSE Handled(req, FALSE, <<>>)

----------------------------------------------------------------------------
(* Event emission.  prepareEvent and sendEvent belong to the device class,  *)
(* which is outside the capability sources.                                  *)

\* The envelope the device hands out: action, cause and an empty value payload.
prepareEvent(action, cause) ==
  [action |-> action, cause |-> cause, payload |-> [value |-> EmptyObj]]
\* The record of one device.prepareEvent call.
PrepareEventCall(action, cause) ==
  [fn |-> "prepareEvent", action |-> action, cause |-> cause]
\* The record of one device.sendEvent call and of what the device answered.
SendEventCall(eventMessage, ret) ==
  [fn |-> "sendEvent", eventMessage |-> eventMessage, ret |-> ret]
\* event_value["k"] = v, where event_value refers to eventMessage["payload"]["value"]
SetValue(eventMessage, k, v) ==
  [eventMessage EXCEPT !.payload.value = Put(@, k, v)]
\* eventMessage["payload"]["k"] = v
SetPayload(eventMessage, k, v) ==
  [eventMessage EXCEPT !.payload = Put(@, k, v)]
\* What a send operation hands back: the device calls it made and its return value.
Sent(dcs, ret) == [deviceCalls |-> dcs, ret |-> ret]

\* Faulty variant: halfway cases go up (floor(x + 0.5)) instead of away from zero.
roundf_HalfUp(n, d) == (2 * n + d) \div (2 * d)

\* roundf(n / d) for d > 0: to the nearest integer, halfway cases away from zero
roundf(n, d) ==
  IF n >= 0 THEN (2 * n + d) \div (2 * d) ELSE -((2 * (-n) + d) \div (2 * d))

\* Faulty variant: a rejected event is sent a second time.
sendAirQualityEvent_Retry(pm1, pm2_5, pm10, cause, rets) ==
  LET eventMessage == SetValue(SetValue(SetValue(prepareEvent("airQuality", cause),
                         "pm1", pm1), "pm2_5", pm2_5), "pm10", pm10)
  IN  IF rets[1]
      THEN Sent(<<PrepareEventCall("airQuality", cause),
                  SendEventCall(eventMessage, rets[1])>>, rets[1])
      ELSE Sent(<<PrepareEventCall("airQuality", cause),
                  SendEventCall(eventMessage, rets[1]),
                  SendEventCall(eventMessage, rets[2])>>, rets[2])

sendAirQualityEvent(pm1, pm2_5, pm10, cause, rets) ==
  LET eventMessage == SetValue(SetValue(SetValue(prepareEvent("airQuality", cause),
                         "pm1", pm1), "pm2_5", pm2_5), "pm10", pm10)
  IN  Sent(<<PrepareEventCall("airQuality", cause), SendEventCall(eventMessage, rets[1])>>,
           rets[1])

sendThermostatModeEvent(thermostatMode, cause, rets) ==
  LET eventMessage == SetValue(prepareEvent("setThermostatMode", cause),
                               "thermostatMode", thermostatMode)
  IN  Sent(<<PrepareEventCall("setThermostatMode", cause),
             SendEventCall(eventMessage, rets[1])>>, rets[1])

\* temperature is in hundredths: temperature * 10 is temperature / 10 tenths,
\* and the quotient by 10.0 is again stored in hundredths.
sendTargetTemperatureEvent(temperature, cause, rets) ==
  LET eventMessage == SetValue(prepareEvent("targetTemperature", cause),
                               "temperature", roundf(temperature, 10) * 10)
  IN  Sent(<<PrepareEventCall("targetTemperature", cause),
             SendEventCall(eventMessage, rets[1])>>, rets[1])

sendRangeValueEvent(rangeValue, cause, rets) ==
  LET eventMessage == SetValue(prepareEvent("setRangeValue", cause),
                               "rangeValue", rangeValue)
  IN  Sent(<<PrepareEventCall("setRangeValue", cause),
             SendEventCall(eventMessage, rets[1])>>, rets[1])

\* Faulty variant: instanceId is written into the value payload.
sendRangeValueEventInstance_InValue(instance, rangeValue, cause, rets) ==
  LET eventMessage == SetValue(SetValue(prepareEvent("setRangeValue", cause),
                                        "instanceId", instance),
                               "rangeValue", rangeValue)
  IN  Sent(<<PrepareEventCall("setRangeValue", cause),
             SendEventCall(eventMessage, rets[1])>>, rets[1])

sendRangeValueEventInstance(instance, rangeValue, cause, rets) ==
  LET eventMessage == SetValue(SetPayload(prepareEvent("setRangeValue", cause),
                                          "instanceId", instance),
                               "rangeValue", rangeValue)
  IN  Sent(<<PrepareEventCall("setRangeValue", cause),
             SendEventCall(eventMessage, rets[1])>>, rets[1])

----------------------------------------------------------------------------
(* State machine *)

ScalarSlots == {"thermostatModeCallback", "targetTemperatureCallback",
                "adjustTargetTemperatureCallback", "setRangeValueCallback",
                "adjustRangeValueCallback"}
GenericSlots == {"genericSetRangeValueCallback", "genericAdjustRangeValueCallback"}
Keys == (ScalarSlots \X {NoInstance}) \cup (GenericSlots \X Instances)

\* The operations of the model, as lastOp names them.
Ops == {"construct", "newRequest", "handleThermostatController", "handleRangeController",
        "handleRequest",
        "onThermostatMode", "onTargetTemperature", "onAdjustTargetTemperature",
        "onRangeValue", "onAdjustRangeValue",
        "sendAirQualityEvent", "sendThermostatModeEvent", "sendTargetTemperatureEvent",
        "sendRangeValueEvent", "sendRangeValueEventInstance"}

\* The on<Action> methods among them.
RegisterOps == {"onThermostatMode", "onTargetTemperature", "onAdjustTargetTemperature",
                "onRangeValue", "onAdjustRangeValue"}

\* A SinricProRequest as the transport layer builds it.
Request(action, instance, request_value) ==
  [action |-> action, instance |-> instance,
   request_value |-> request_value, response_value |-> EmptyObj]

\* The values a request can carry in the member its action reads
\* (an action of another capability carries a rangeValue).
RequestedValues(action) ==
  CASE action \in {"targetTemperature", "adjustTargetTemperature"} -> RequestTemps
    [] action = "setThermostatMode" -> RequestModes
    [] action = "adjustRangeValue" -> RequestRangeDeltas
    [] OTHER -> RequestRangeValues

RequestField(action) ==
  CASE action \in {"targetTemperature", "adjustTargetTemperature"} -> "temperature"
    [] action = "setThermostatMode" -> "thermostatMode"
    [] action = "adjustRangeValue" -> "rangeValueDelta"
    [] OTHER -> "rangeValue"

RequestInstances(action) ==
  IF action \in ThermostatActions THEN {NoInstance} ELSE {NoInstance} \cup Instances

\* The behaviours a host callback for this action can show.
HostBehaviours(action) ==
  CASE action = "setThermostatMode" -> Behaviours(CallbackModes)
    [] action \in RangeActions -> Behaviours(CallbackRangeValues)
    [] OTHER -> Behaviours(CallbackTemps)

\* The device's base-class constructors run in declaration order; an event
\* source has no constructor of its own and registers nothing.
RECURSIVE Constructed(_)
Constructed(bs) ==
  IF bs = <<>> THEN <<>>
  ELSE LET handlers == Constructed(SubSeq(bs, 1, Len(bs) - 1))
           base == bs[Len(bs)]
       IN  IF base = "ThermostatController" THEN ThermostatController(handlers)
           ELSE IF base = "RangeController" THEN RangeController(handlers)
           ELSE handlers

\* A device whose base classes are bs, after its construction.
InitDevice(bs) ==
  /\ bases = bs
  /\ requestHandlers = Constructed(bases)
  /\ thermostatModeCallback = Null
  /\ targetTemperatureCallback = Null
  /\ adjustTargetTemperatureCallback = Null
  /\ setRangeValueCallback = Null
  /\ genericSetRangeValueCallback = EmptyObj
  /\ adjustRangeValueCallback = Null
  /\ genericAdjustRangeValueCallback = EmptyObj
  /\ request = Request("", NoInstance, EmptyObj)
  /\ calls = <<>>
  /\ offers = <<>>
  /\ deviceCalls = <<>>
  /\ success = FALSE
  /\ lastOp = "construct"
  /\ sendArgs = <<>>
  /\ lastRegistered = [k \in Keys |-> Null]
  /\ replaced = [k \in Keys |-> Null]
  /\ nRegs = 0

\* A device that lists the thermostat first.
Init == InitDevice(<<"ThermostatController", "RangeController", "AirQualityEventSource">>)
\* A device of either order.
InitEitherOrder == \E bs \in BaseOrders : InitDevice(bs)

\* The part every on<Action> call shares: it is counted and remembered.
Registered(op, slot, instance, cb) ==
  /\ nRegs < MaxRegs
  /\ nRegs' = nRegs + 1
  /\ lastRegistered' = [lastRegistered EXCEPT ![<<slot, instance>>] = cb]
  /\ replaced' = [replaced EXCEPT ![<<slot, instance>>] = lastRegistered[<<slot, instance>>]]
  /\ lastOp' = op
  /\ sendArgs' = <<>>
  /\ calls' = <<>>
  /\ deviceCalls' = <<>>
  /\ success' = FALSE
  /\ offers' = <<>>
  /\ UNCHANGED <<deviceVars, request>>

OnThermostatMode ==
  \E cb \in CallbackIds \cup {Null} :
    /\ thermostatModeCallback' = onThermostatMode(cb)
    /\ Registered("onThermostatMode", "thermostatModeCallback", NoInstance, cb)
    /\ UNCHANGED <<targetTemperatureCallback, adjustTargetTemperatureCallback, rangeVars>>

OnTargetTemperature ==
  \E cb \in CallbackIds \cup {Null} :
    /\ targetTemperatureCallback' = onTargetTemperature(cb)
    /\ Registered("onTargetTemperature", "targetTemperatureCallback", NoInstance, cb)
    /\ UNCHANGED <<thermostatModeCallback, adjustTargetTemperatureCallback, rangeVars>>

OnAdjustTargetTemperature ==
  \E cb \in CallbackIds \cup {Null} :
    /\ adjustTargetTemperatureCallback' = onAdjustTargetTemperature(cb)
    /\ Registered("onAdjustTargetTemperature", "adjustTargetTemperatureCallback", NoInstance, cb)
    /\ UNCHANGED <<thermostatModeCallback, targetTemperatureCallback, rangeVars>>

OnRangeValue ==
  \E cb \in CallbackIds \cup {Null} :
    /\ setRangeValueCallback' = onRangeValue(cb)
    /\ Registered("onRangeValue", "setRangeValueCallback", NoInstance, cb)
    /\ UNCHANGED <<thermostatVars, genericSetRangeValueCallback,
                   adjustRangeValueCallback, genericAdjustRangeValueCallback>>

\* The instance overloads are given a callable: an empty std::function stored
\* under a name would be called by the handler without a test.
OnRangeValueInstance ==
  \E instance \in Instances, cb \in CallbackIds :
    /\ genericSetRangeValueCallback' = onRangeValueInstance(instance, cb)
    /\ Registered("onRangeValue", "genericSetRangeValueCallback", instance, cb)
    /\ UNCHANGED <<thermostatVars, setRangeValueCallback,
                   adjustRangeValueCallback, genericAdjustRangeValueCallback>>

OnAdjustRangeValue ==
  \E cb \in CallbackIds \cup {Null} :
    /\ adjustRangeValueCallback' = onAdjustRangeValue(cb)
    /\ Registered("onAdjustRangeValue", "adjustRangeValueCallback", NoInstance, cb)
    /\ UNCHANGED <<thermostatVars, setRangeValueCallback,
                   genericSetRangeValueCallback, genericAdjustRangeValueCallback>>

OnAdjustRangeValueInstance ==
  \E instance \in Instances, cb \in CallbackIds :
    /\ genericAdjustRangeValueCallback' = onAdjustRangeValueInstance(instance, cb)
    /\ Registered("onAdjustRangeValue", "genericAdjustRangeValueCallback", instance, cb)
    /\ UNCHANGED <<thermostatVars, setRangeValueCallback,
                   genericSetRangeValueCallback, adjustRangeValueCallback>>

\* The transport layer builds a request from a received message; the payload
\* supplies the member the action reads, or does not.
NewRequest ==
  \E action \in ThermostatActions \cup RangeActions \cup OtherActions :
    \E instance \in RequestInstances(action), supplied \in BOOLEAN,
       value \in RequestedValues(action) :
      /\ request' = Request(action, instance,
                            IF supplied THEN Obj1(RequestField(action), value)
                            ELSE EmptyObj)
      /\ lastOp' = "newRequest"
      /\ calls' = <<>>
      /\ deviceCalls' = <<>>
      /\ success' = FALSE
      /\ sendArgs' = <<>>
      /\ offers' = <<>>
      /\ UNCHANGED <<deviceVars, thermostatVars, rangeVars, lastRegistered, replaced, nRegs>>

\* A handler of the list is called with the request.
HandlerStep(op, h) ==
  /\ request' = h.request
  /\ calls' = h.calls
  /\ success' = h.success
  /\ lastOp' = op
  /\ deviceCalls' = <<>>
  /\ sendArgs' = <<>>
  /\ offers' = <<>>
  /\ UNCHANGED <<deviceVars, lastRegistered, replaced, nRegs>>

HandleThermostatController ==
  /\ lastOp \in {"newRequest", "handleRangeController"}
  /\ \E beh \in HostBehaviours(request.action) :
       HandlerStep("handleThermostatController", handleThermostatController(request, beh))
  /\ UNCHANGED <<thermostatVars, rangeVars>>

HandleRangeController ==
  /\ lastOp \in {"newRequest", "handleThermostatController"}
  /\ \E beh \in HostBehaviours(request.action) :
       HandlerStep("handleRangeController", handleRangeController(request, beh))
  /\ genericSetRangeValueCallback' = genericSetAfter(request)
  /\ genericAdjustRangeValueCallback' = genericAdjustAfter(request)
  /\ UNCHANGED <<thermostatVars, setRangeValueCallback, adjustRangeValueCallback>>

\* A handler of the list is a bound member function of its capability.
CallHandler(handler, req, beh) ==
  IF handler = "handleThermostatController" THEN handleThermostatController(req, beh)
  ELSE handleRangeController(req, beh)

\* The device's dispatcher: it offers the request to the handlers in list
\* order and stops at the first that returns true.  offered is the record of
\* the handler calls made so far: what each returned, the callbacks it invoked
\* and whether it left response_value different.
RECURSIVE handleRequest(_, _, _, _)
handleRequest(handlers, req, beh, offered) ==
  IF handlers = <<>>
  THEN [request |-> req, success |-> FALSE, offers |-> offered]
  ELSE LET h == CallHandler(Head(handlers), req, beh)
           offer == [handler |-> Head(handlers), success |-> h.success, calls |-> h.calls,
                     wrote |-> h.request.response_value # req.response_value]
       IN  IF h.success
           THEN [request |-> h.request, success |-> TRUE, offers |-> Append(offered, offer)]
           ELSE handleRequest(Tail(handlers), h.request, beh, Append(offered, offer))

\* The callbacks invoked during a dispatch, in order.
RECURSIVE CallsOf(_)
CallsOf(os) == IF os = <<>> THEN <<>> ELSE Head(os).calls \o CallsOf(Tail(os))

\* The device dispatches the request it received.
HandleRequest ==
  /\ lastOp = "newRequest"
  /\ \E beh \in HostBehaviours(request.action) :
       LET d == handleRequest(requestHandlers, request, beh, <<>>)
           ranged == \E i \in 1..Len(d.offers) : d.offers[i].handler = "handleRangeController"
       IN  /\ request' = d.request
           /\ success' = d.success
           /\ offers' = d.offers
           /\ calls' = CallsOf(d.offers)
           /\ genericSetRangeValueCallback' =
                IF ranged THEN genericSetAfter(request) ELSE genericSetRangeValueCallback
           /\ genericAdjustRangeValueCallback' =
                IF ranged THEN genericAdjustAfter(request) ELSE genericAdjustRangeValueCallback
  /\ lastOp' = "handleRequest"
  /\ deviceCalls' = <<>>
  /\ sendArgs' = <<>>
  /\ UNCHANGED <<deviceVars, thermostatVars, setRangeValueCallback, adjustRangeValueCallback,
                 lastRegistered, replaced, nRegs>>

\* A send operation, called by the firmware with arguments as; s is what it
\* hands back.  answers are the device's answers to successive sendEvent calls.
SendStep(op, as, s) ==
  /\ sendArgs' = as
  /\ deviceCalls' = s.deviceCalls
  /\ success' = s.ret
  /\ lastOp' = op
  /\ calls' = <<>>
  /\ offers' = <<>>
  /\ UNCHANGED <<deviceVars, thermostatVars, rangeVars, request,
                 lastRegistered, replaced, nRegs>>

SendAirQualityEvent ==
  \E pm1 \in PmValues, pm2_5 \in PmValues, pm10 \in PmValues,
     cause \in Causes, answer1 \in BOOLEAN, answer2 \in BOOLEAN :
    /\ lastOp \in Ops                 \* whatever came before
    /\ SendStep("sendAirQualityEvent", <<pm1, pm2_5, pm10, cause>>,
                sendAirQualityEvent(pm1, pm2_5, pm10, cause, <<answer1, answer2>>))

SendThermostatModeEvent ==
  \E thermostatMode \in Modes, cause \in Causes, answer1 \in BOOLEAN, answer2 \in BOOLEAN :
    /\ lastOp \in Ops                 \* whatever came before
    /\ SendStep("sendThermostatModeEvent", <<thermostatMode, cause>>,
                sendThermostatModeEvent(thermostatMode, cause, <<answer1, answer2>>))

SendTargetTemperatureEvent ==
  \E temperature \in EventTemps, cause \in Causes, answer1 \in BOOLEAN, answer2 \in BOOLEAN :
    /\ lastOp \in Ops                 \* whatever came before
    /\ SendStep("sendTargetTemperatureEvent", <<temperature, cause>>,
                sendTargetTemperatureEvent(temperature, cause, <<answer1, answer2>>))

SendRangeValueEvent ==
  \E rangeValue \in EventRangeValues, cause \in Causes,
     answer1 \in BOOLEAN, answer2 \in BOOLEAN :
    /\ lastOp \in Ops                 \* whatever came before
    /\ SendStep("sendRangeValueEvent", <<rangeValue, cause>>,
                sendRangeValueEvent(rangeValue, cause, <<answer1, answer2>>))

SendRangeValueEventInstance ==
  \E instance \in Instances, rangeValue \in EventRangeValues, cause \in Causes,
     answer1 \in BOOLEAN, answer2 \in BOOLEAN :
    /\ lastOp \in Ops                 \* whatever came before
    /\ SendStep("sendRangeValueEventInstance", <<instance, rangeValue, cause>>,
                sendRangeValueEventInstance(instance, rangeValue, cause,
                                            <<answer1, answer2>>))

Register ==
  \/ OnThermostatMode
  \/ OnTargetTemperature
  \/ OnAdjustTargetTemperature
  \/ OnRangeValue
  \/ OnRangeValueInstance
  \/ OnAdjustRangeValue
  \/ OnAdjustRangeValueInstance

\* The firmware's setup: callbacks are registered before the first request.
Setup ==
  /\ lastOp \in RegisterOps \cup {"construct"}
  /\ Register

Dispatch ==
  \/ NewRequest
  \/ HandleThermostatController
  \/ HandleRangeController

SendEvent ==
  \/ SendAirQualityEvent
  \/ SendThermostatModeEvent
  \/ SendTargetTemperatureEvent
  \/ SendRangeValueEvent
  \/ SendRangeValueEventInstance

Next == Register \/ Dispatch \/ HandleRequest \/ SendEvent

\* The whole device.
Spec == Init /\ [][Next]_vars
\* The request path: registration and dispatch.
SpecRequest == Init /\ [][Register \/ Dispatch]_vars
\* The event path.
SpecEvent == Init /\ [][SendEvent]_vars
\* The two paths of a target temperature: the thermostat's requests and its event.
SpecTemperature ==
  Init /\ [][\/ OnTargetTemperature
             \/ OnAdjustTargetTemperature
             \/ NewRequest
             \/ HandleThermostatController
             \/ SendTargetTemperatureEvent]_vars

\* A device of either base-class order under its dispatcher: the callbacks
\* are registered during setup, then requests arrive.
SpecDispatcher == InitEitherOrder /\ [][Setup \/ NewRequest \/ HandleRequest]_vars
\* The life of a device of either base-class order: construction, then
\* registrations, dispatched requests and events.
SpecLifecycle ==
  InitEitherOrder /\ [][\/ OnThermostatMode
                        \/ OnRangeValueInstance
                        \/ NewRequest
                        \/ HandleRequest
                        \/ SendThermostatModeEvent]_vars

----------------------------------------------------------------------------
(* Vocabulary of the properties *)

\* The request_value member an action reads.
FieldOf(action) ==
  CASE action \in {"targetTemperature", "adjustTargetTemperature"} -> "temperature"
    [] action = "setThermostatMode" -> "thermostatMode"
    [] action = "setRangeValue" -> "rangeValue"
    [] action = "adjustRangeValue" -> "rangeValueDelta"

\* The response_value member an action's handler reports under.
ResponseFieldOf(action) ==
  IF action \in RangeActions THEN "rangeValue" ELSE FieldOf(action)

\* The member that holds the callback for an action and instance.
SlotOf(action, instance) ==
  CASE action = "targetTemperature" -> "targetTemperatureCallback"
    [] action = "adjustTargetTemperature" -> "adjustTargetTemperatureCallback"
    [] action = "setThermostatMode" -> "thermostatModeCallback"
    [] action = "setRangeValue" ->
         IF instance = NoInstance THEN "setRangeValueCallback"
         ELSE "genericSetRangeValueCallback"
    [] action = "adjustRangeValue" ->
         IF instance = NoInstance THEN "adjustRangeValueCallback"
         ELSE "genericAdjustRangeValueCallback"
    [] OTHER -> "none"

\* The (action, instance) key a request is a match for.
KeyOf(req) ==
  <<SlotOf(req.action, req.instance),
    IF req.action \in RangeActions THEN req.instance ELSE NoInstance>>

\* The callback the host registered last for the request's key (Null: none).
RegisteredFor(req) ==
  IF KeyOf(req) \in Keys THEN lastRegistered[KeyOf(req)] ELSE Null

AfterThermostat == lastOp = "handleThermostatController"
AfterRange == lastOp = "handleRangeController"
ThermostatRequest == request.action \in ThermostatActions
RangeRequest == request.action \in RangeActions
FieldSupplied == containsKey(request.request_value, FieldOf(request.action))
Requested == request.request_value[FieldOf(request.action)]
Responded == request.response_value[ResponseFieldOf(request.action)]
HasResponded == containsKey(request.response_value, ResponseFieldOf(request.action))

----------------------------------------------------------------------------
(* C1 as stated: after handleThermostatController has run on a request of *)
(* one of its three actions with no callback registered for it, it has     *)
(* returned false and response_value holds the requested value under the   *)
(* request's key.                                                          *)
C1_EchoedWithoutCallback ==
  (AfterThermostat /\ ThermostatRequest /\ RegisteredFor(request) = Null)
    => /\ success = FALSE
       /\ HasResponded
       /\ FieldSupplied => Responded = Requested

(* C1 amended: a step of handleThermostatController on a request of one of *)
(* its three actions with no callback registered for it returns false,     *)
(* invokes no callback and leaves the request, response_value included, as *)
(* it was: nothing is echoed.                                              *)
C1_UntouchedWithoutCallback ==
  [][(lastOp' = "handleThermostatController" /\ ThermostatRequest
        /\ RegisteredFor(request) = Null)
       => (success' = FALSE /\ calls' = <<>> /\ request' = request)]_vars

C1_Witness ==
  /\ AfterThermostat
  /\ request.action = "setThermostatMode"
  /\ request.request_value = Obj1("thermostatMode", "COOL")
  /\ RegisteredFor(request) = Null
  /\ thermostatModeCallback = Null
  /\ success = FALSE
  /\ request.response_value = EmptyObj

(* C2: a step of a capability's handler on a request whose action is not   *)
(* one of that capability's action names returns false, invokes no         *)
(* callback and leaves response_value (and the rest of the request) as it  *)
(* was, whatever is registered.                                            *)
C2_UnclaimedAction ==
  [][/\ (lastOp' = "handleThermostatController" /\ ~ThermostatRequest)
          => (success' = FALSE /\ calls' = <<>> /\ request' = request)
     /\ (lastOp' = "handleRangeController" /\ ~RangeRequest)
          => (success' = FALSE /\ calls' = <<>> /\ request' = request)]_vars

\* The range handler is offered a thermostat request the thermostat handler
\* has answered, with range callbacks registered: it leaves the answer alone.
C2_Witness ==
  /\ AfterRange
  /\ request.action = "targetTemperature"
  /\ request.response_value = Obj1("temperature", 2200)
  /\ setRangeValueCallback # Null
  /\ success = FALSE
  /\ calls = <<>>

(* C3: after handleThermostatController has run on a request of one of its *)
(* three actions whose payload supplies the field, with a callback         *)
(* registered for the action, exactly that callback was invoked, once,     *)
(* with the device id and the requested value; the handler returned the    *)
(* callback's boolean and response_value[field] is the value the callback  *)
(* left in its reference parameter.                                        *)
C3_CallbackInvokedOnce ==
  (AfterThermostat /\ ThermostatRequest /\ FieldSupplied
     /\ RegisteredFor(request) # Null)
    => /\ Len(calls) = 1
       /\ calls[1].slot = SlotOf(request.action, NoInstance)
       /\ calls[1].cb = RegisteredFor(request)
       /\ calls[1].args = <<DeviceId, Requested>>
       /\ success = calls[1].ret
       /\ HasResponded
       /\ Responded = calls[1].out

C3_Witness ==
  /\ AfterThermostat
  /\ request.action = "targetTemperature"
  /\ request.request_value = Obj1("temperature", 2000)
  /\ RegisteredFor(request) = "cb1"
  /\ Len(calls) = 1
  /\ calls[1].args = <<DeviceId, 2000>>
  /\ calls[1].out = 2200
  /\ success = TRUE
  /\ request.response_value = Obj1("temperature", 2200)

(* C4: after handleRangeController has run on a setRangeValue or           *)
(* adjustRangeValue request, every callback it invoked is the one          *)
(* registered for the request's action under exactly the request's         *)
(* instance name (the scalar one when the instance is empty, never the     *)
(* scalar one otherwise), and it was handed that instance name; when the   *)
(* instance is not empty and nothing is registered under it, the handler   *)
(* returned false and invoked nothing.                                     *)
C4_InstanceRouting ==
  (AfterRange /\ RangeRequest)
    => /\ \A i \in 1..Len(calls) :
            /\ calls[i].slot = SlotOf(request.action, request.instance)
            /\ calls[i].cb = RegisteredFor(request)
            /\ request.instance # NoInstance
                 => (Len(calls[i].args) = 3 /\ calls[i].args[2] = request.instance)
            /\ request.instance = NoInstance => Len(calls[i].args) = 2
       /\ (request.instance # NoInstance /\ RegisteredFor(request) = Null)
            => (success = FALSE /\ calls = <<>>)

\* A request for instance2 while only the scalar callback and the callback
\* of instance1 are registered.
C4_Witness ==
  /\ AfterRange
  /\ request.action = "setRangeValue"
  /\ request.instance = "instance2"
  /\ setRangeValueCallback # Null
  /\ DOMAIN genericSetRangeValueCallback = {"instance1"}
  /\ calls = <<>>
  /\ success = FALSE

(* C5: after handleRangeController has run on a setRangeValue request with *)
(* an empty instance and a scalar callback registered, that callback was   *)
(* invoked once with the payload's rangeValue, or with 0 when the payload  *)
(* has none, and the handler returned true exactly if the callback did.    *)
C5_DefaultPath ==
  (AfterRange /\ request.action = "setRangeValue" /\ request.instance = NoInstance
     /\ RegisteredFor(request) # Null)
    => /\ Len(calls) = 1
       /\ calls[1].slot = "setRangeValueCallback"
       /\ calls[1].args = <<DeviceId, IF FieldSupplied THEN Requested ELSE 0>>
       /\ (success = TRUE) <=> (calls[1].ret = TRUE)

C5_Witness ==
  /\ AfterRange
  /\ request.action = "setRangeValue"
  /\ request.instance = NoInstance
  /\ request.request_value = EmptyObj
  /\ RegisteredFor(request) # Null
  /\ Len(calls) = 1
  /\ calls[1].args = <<DeviceId, 0>>
  /\ calls[1].ret = TRUE
  /\ success = TRUE

(* C6: after handleRangeController has run on a setRangeValue request for  *)
(* an instance X that has a callback registered with onRangeValue(X, cb),  *)
(* cb was invoked once with (deviceId, X, requested rangeValue), the       *)
(* handler returned cb's boolean and response_value.rangeValue is the      *)
(* value cb left.                                                          *)
C6_KeyedPath ==
  (AfterRange /\ request.action = "setRangeValue" /\ request.instance \in Instances
     /\ RegisteredFor(request) # Null)
    => /\ Len(calls) = 1
       /\ calls[1].slot = "genericSetRangeValueCallback"
       /\ calls[1].cb = RegisteredFor(request)
       /\ calls[1].args = <<DeviceId, request.instance,
                            IF FieldSupplied THEN Requested ELSE 0>>
       /\ success = calls[1].ret
       /\ HasResponded
       /\ Responded = calls[1].out

C6_Witness ==
  /\ AfterRange
  /\ request.action = "setRangeValue"
  /\ request.instance = "instance1"
  /\ request.request_value = Obj1("rangeValue", 1)
  /\ Len(calls) = 1
  /\ calls[1].args = <<DeviceId, "instance1", 1>>
  /\ calls[1].out = 2
  /\ success = TRUE
  /\ request.response_value = Obj1("rangeValue", 2)

(* C7: after either handler has run, every callback it invoked is the one  *)
(* most recently registered for the request's (action, instance) key; a    *)
(* callback that a later registration replaced is not invoked.             *)
C7_LatestRegistrationWins ==
  (AfterThermostat \/ AfterRange)
    => \A i \in 1..Len(calls) :
         /\ <<calls[i].slot, IF Len(calls[i].args) = 3 THEN calls[i].args[2]
                             ELSE NoInstance>> = KeyOf(request)
         /\ calls[i].cb = lastRegistered[KeyOf(request)]

\* cb2 was registered over cb1 for instance1, and a request for instance1
\* invoked cb2.
C7_Witness ==
  /\ AfterRange
  /\ request.action = "setRangeValue"
  /\ request.instance = "instance1"
  /\ replaced[KeyOf(request)] = "cb1"
  /\ lastRegistered[KeyOf(request)] = "cb2"
  /\ Len(calls) = 1
  /\ calls[1].cb = "cb2"

SendOps == {"sendAirQualityEvent", "sendThermostatModeEvent",
            "sendTargetTemperatureEvent", "sendRangeValueEvent",
            "sendRangeValueEventInstance"}
\* The envelope the last send operation handed to device.sendEvent.
SentMessage == deviceCalls[2].eventMessage
Abs(x) == IF x < 0 THEN -x ELSE x

(* C8: after any send-event operation, the device was called exactly       *)
(* twice, prepareEvent and then sendEvent, and the operation returned what *)
(* sendEvent returned; a rejected event is not sent again.                 *)
C8_PrepareThenSendOnce ==
  lastOp \in SendOps
    => /\ Len(deviceCalls) = 2
       /\ deviceCalls[1].fn = "prepareEvent"
       /\ deviceCalls[2].fn = "sendEvent"
       /\ success = deviceCalls[2].ret

C8_Witness ==
  /\ lastOp = "sendAirQualityEvent"
  /\ sendArgs = <<5, 10, 20, "PERIODIC_POLL">>
  /\ Len(deviceCalls) = 2
  /\ deviceCalls[2].ret = FALSE
  /\ success = FALSE

(* C9: after handleRangeController has run on a setRangeValue or           *)
(* adjustRangeValue request for which no callback is registered for the    *)
(* request's instance (no scalar callback when the instance is empty), or  *)
(* whose callback returned false, the handler returned false and           *)
(* response_value.rangeValue holds the requested value, 0 when the field   *)
(* is missing, or the value the failing callback left.                     *)
C9_ClaimedUnfulfilled ==
  (AfterRange /\ RangeRequest
     /\ (RegisteredFor(request) = Null \/ (calls # <<>> /\ calls[1].ret = FALSE)))
    => /\ success = FALSE
       /\ HasResponded
       /\ Responded = IF calls = <<>>
                      THEN (IF FieldSupplied THEN Requested ELSE 0)
                      ELSE calls[1].out

C9_Witness ==
  /\ AfterRange
  /\ request.action = "setRangeValue"
  /\ request.instance = "instance1"
  /\ request.request_value = Obj1("rangeValue", 1)
  /\ RegisteredFor(request) = Null
  /\ setRangeValueCallback # Null
  /\ calls = <<>>
  /\ success = FALSE
  /\ request.response_value = Obj1("rangeValue", 1)

(* C10: after sendTargetTemperatureEvent, the event's value.temperature is *)
(* the input rounded to one decimal place (a whole number of tenths, the   *)
(* nearest one, the one away from zero when the input is halfway between   *)
(* two); after handleThermostatController has invoked a callback for a     *)
(* targetTemperature or adjustTargetTemperature request,                   *)
(* response_value.temperature is the value the callback left, unrounded.   *)
C10_EventRoundedResponseNot ==
  /\ lastOp = "sendTargetTemperatureEvent"
       => LET t == sendArgs[1]
              v == SentMessage.payload.value["temperature"]
          IN  /\ v % 10 = 0
              /\ Abs(v - t) <= 5
              /\ Abs(v - t) = 5 => Abs(v) > Abs(t)
  /\ (AfterThermostat /\ calls # <<>>
        /\ request.action \in {"targetTemperature", "adjustTargetTemperature"})
       => (HasResponded /\ Responded = calls[1].out)

\* 21.27 was answered unrounded to a request, and is then sent as 21.3.
C10_Witness ==
  /\ lastOp = "sendTargetTemperatureEvent"
  /\ sendArgs[1] = 2127
  /\ SentMessage.payload.value["temperature"] = 2130
  /\ request.action = "targetTemperature"
  /\ request.response_value = Obj1("temperature", 2127)

(* C11: after handleThermostatController has run on a targetTemperature    *)
(* request whose payload has no temperature field, with a callback         *)
(* registered, the callback was handed 1 (100 hundredths) and              *)
(* response_value.temperature holds what the callback left in its          *)
(* parameter: that 1 when it wrote nothing, its own value otherwise.       *)
C11_DefaultTemperatureOne ==
  (AfterThermostat /\ request.action = "targetTemperature" /\ ~FieldSupplied
     /\ RegisteredFor(request) # Null)
    => /\ Len(calls) = 1
       /\ calls[1].args = <<DeviceId, 100>>
       /\ HasResponded
       /\ Responded = calls[1].out
       /\ Responded # 100 => Responded \in CallbackTemps

\* The callback left its parameter alone: the response reports the default 1.
C11_Witness ==
  /\ AfterThermostat
  /\ request.action = "targetTemperature"
  /\ request.request_value = EmptyObj
  /\ RegisteredFor(request) # Null
  /\ Len(calls) = 1
  /\ calls[1].args = <<DeviceId, 100>>
  /\ calls[1].out = 100
  /\ request.response_value = Obj1("temperature", 100)

(* C12: response_value never has a rangeValueDelta member; after           *)
(* handleRangeController has run on an adjustRangeValue request, the       *)
(* callback it selected (if any) was handed the payload's rangeValueDelta, *)
(* 0 when the payload has none, the handler returned that callback's       *)
(* boolean, and response_value.rangeValue holds the value the callback     *)
(* left in its parameter (the delta itself when no callback ran).          *)
C12_AdjustRespondsRangeValue ==
  /\ ~containsKey(request.response_value, "rangeValueDelta")
  /\ (AfterRange /\ request.action = "adjustRangeValue")
       => LET rangeValueDelta == IF FieldSupplied THEN Requested ELSE 0
          IN  /\ Len(calls) <= 1
              /\ \A i \in 1..Len(calls) :
                   /\ calls[i].args[Len(calls[i].args)] = rangeValueDelta
                   /\ success = calls[i].ret
              /\ containsKey(request.response_value, "rangeValue")
              /\ request.response_value["rangeValue"] =
                   IF calls = <<>> THEN rangeValueDelta ELSE calls[1].out

\* A delta of -1 for instance1, whose callback reports the new value 2.
C12_Witness ==
  /\ AfterRange
  /\ request.action = "adjustRangeValue"
  /\ request.instance = "instance1"
  /\ request.request_value = Obj1("rangeValueDelta", -1)
  /\ Len(calls) = 1
  /\ calls[1].slot = "genericAdjustRangeValueCallback"
  /\ calls[1].args = <<DeviceId, "instance1", -1>>
  /\ calls[1].out = 2
  /\ request.response_value = Obj1("rangeValue", 2)

(* C13: a step of handleThermostatController or handleRangeController, on  *)
(* any request, leaves the request's action, instance and request_value,   *)
(* every stored callback, both instance-keyed maps (their key sets and     *)
(* their entries) and the handler list as they were; of the request only   *)
(* response_value can differ afterwards.                                   *)
C13_DispatchReadOnly ==
  [][lastOp' \in {"handleThermostatController", "handleRangeController"}
       => /\ request'.action = request.action
          /\ request'.instance = request.instance
          /\ request'.request_value = request.request_value
          /\ DOMAIN request' = DOMAIN request
          /\ thermostatVars' = thermostatVars
          /\ setRangeValueCallback' = setRangeValueCallback
          /\ adjustRangeValueCallback' = adjustRangeValueCallback
          /\ DOMAIN genericSetRangeValueCallback' = DOMAIN genericSetRangeValueCallback
          /\ DOMAIN genericAdjustRangeValueCallback' = DOMAIN genericAdjustRangeValueCallback
          /\ genericSetRangeValueCallback' = genericSetRangeValueCallback
          /\ genericAdjustRangeValueCallback' = genericAdjustRangeValueCallback
          /\ requestHandlers' = requestHandlers]_vars

\* An adjustRangeValue request for instance2 was handled while only
\* instance1 has a callback: the map still has the one key.
C13_Witness ==
  /\ AfterRange
  /\ request.action = "adjustRangeValue"
  /\ request.instance = "instance2"
  /\ request.request_value = Obj1("rangeValueDelta", -1)
  /\ DOMAIN genericAdjustRangeValueCallback = {"instance1"}
  /\ request.response_value = Obj1("rangeValue", -1)

\* The capability classes that register a request handler, and the handler of each.
Capabilities == {"ThermostatController", "RangeController"}
HandlerOf(base) ==
  IF base = "ThermostatController" THEN "handleThermostatController"
  ELSE "handleRangeController"
\* The capabilities among the device's base classes, in declaration order.
CapabilityBases == SelectSeq(bases, LAMBDA b : b \in Capabilities)

(* C14: in every state after construction requestHandlers holds exactly    *)
(* one handler per capability among the device's base classes, each once,  *)
(* in the order the base classes are constructed; and no step (an          *)
(* on<Action> registration, a dispatched request, a sent event) changes    *)
(* the list.                                                               *)
C14_HandlersRegisteredOnce ==
  /\ [](/\ Len(requestHandlers) = Len(CapabilityBases)
        /\ \A i \in 1..Len(CapabilityBases) :
             requestHandlers[i] = HandlerOf(CapabilityBases[i])
        /\ \A i, j \in 1..Len(requestHandlers) :
             requestHandlers[i] = requestHandlers[j] => i = j)
  /\ [][requestHandlers' = requestHandlers]_vars

\* A device that lists the range capability first has registered a callback,
\* dispatched a request and sent an event: the list is as constructed.
C14_Witness ==
  /\ bases[1] = "RangeController"
  /\ requestHandlers = <<"handleRangeController", "handleThermostatController">>
  /\ lastOp = "sendThermostatModeEvent"
  /\ nRegs > 0
  /\ request.response_value # EmptyObj

(* C15: after sendRangeValueEvent(instance, rangeValue, cause) the         *)
(* envelope handed to sendEvent has payload.instanceId = instance beside   *)
(* payload.value, and payload.value holds rangeValue = rangeValue and no   *)
(* instanceId; after the overload without an instance, payload.value holds *)
(* rangeValue = rangeValue and neither the payload nor its value has an    *)
(* instanceId; both asked prepareEvent for action setRangeValue with the   *)
(* given cause.                                                            *)
C15_InstanceIdSibling ==
  /\ lastOp = "sendRangeValueEventInstance"
       => /\ deviceCalls[1].action = "setRangeValue"
          /\ deviceCalls[1].cause = sendArgs[3]
          /\ containsKey(SentMessage.payload, "instanceId")
          /\ SentMessage.payload["instanceId"] = sendArgs[1]
          /\ ~containsKey(SentMessage.payload["value"], "instanceId")
          /\ containsKey(SentMessage.payload["value"], "rangeValue")
          /\ SentMessage.payload["value"]["rangeValue"] = sendArgs[2]
  /\ lastOp = "sendRangeValueEvent"
       => /\ deviceCalls[1].action = "setRangeValue"
          /\ deviceCalls[1].cause = sendArgs[2]
          /\ ~containsKey(SentMessage.payload, "instanceId")
          /\ ~containsKey(SentMessage.payload["value"], "instanceId")
          /\ containsKey(SentMessage.payload["value"], "rangeValue")
          /\ SentMessage.payload["value"]["rangeValue"] = sendArgs[1]

C15_Witness ==
  /\ lastOp = "sendRangeValueEventInstance"
  /\ sendArgs = <<"instance2", 3, "PHYSICAL_INTERACTION">>
  /\ SentMessage.payload["instanceId"] = "instance2"
  /\ SentMessage.payload["value"] = Obj1("rangeValue", 3)
  /\ deviceCalls[1] = PrepareEventCall("setRangeValue", "PHYSICAL_INTERACTION")

(* C16: after handleThermostatController has run on an                     *)
(* adjustTargetTemperature request whose payload has no temperature field, *)
(* with a callback registered, that callback was invoked once with the     *)
(* device id and a delta of 0, the handler returned the callback's boolean *)
(* and response_value.temperature holds the value the callback left: the   *)
(* missing field is handled as any other request is.                       *)
C16_MissingDeltaNotAnError ==
  (AfterThermostat /\ request.action = "adjustTargetTemperature" /\ ~FieldSupplied
     /\ RegisteredFor(request) # Null)
    => /\ Len(calls) = 1
       /\ calls[1].slot = "adjustTargetTemperatureCallback"
       /\ calls[1].cb = RegisteredFor(request)
       /\ calls[1].args = <<DeviceId, 0>>
       /\ success = calls[1].ret
       /\ HasResponded
       /\ Responded = calls[1].out

\* The callback answered the missing delta with 22.0 and true.
C16_Witness ==
  /\ AfterThermostat
  /\ request.action = "adjustTargetTemperature"
  /\ request.request_value = EmptyObj
  /\ Len(calls) = 1
  /\ calls[1].args = <<DeviceId, 0>>
  /\ calls[1].out = 2200
  /\ success = TRUE
  /\ request.response_value = Obj1("temperature", 2200)

\* The action names a handler claims.
ActionsOf(handler) ==
  IF handler = "handleThermostatController" THEN ThermostatActions ELSE RangeActions
AfterDispatch == lastOp = "handleRequest"

(* C17: after the device's dispatcher has dispatched a request (handlers   *)
(* offered in list order, stopping at the first that returns true), in     *)
(* either construction order and whatever is registered: at most one       *)
(* handler invoked a callback, and it invoked one; at most one handler     *)
(* wrote response_value; and when a handler whose action names include the *)
(* request's action returned false, every handler after it in the list was *)
(* offered the request and none of them invoked a callback or wrote        *)
(* response_value.                                                         *)
C17_OneCapabilityAnswers ==
  AfterDispatch
    => /\ Len(offers) <= Len(requestHandlers)
       /\ \A i \in 1..Len(offers) :
            /\ offers[i].handler = requestHandlers[i]
            /\ Len(offers[i].calls) <= 1
            /\ i < Len(offers) => ~offers[i].success
       /\ Cardinality({i \in 1..Len(offers) : offers[i].calls # <<>>}) <= 1
       /\ Cardinality({i \in 1..Len(offers) : offers[i].wrote}) <= 1
       /\ \A i \in 1..Len(offers) :
            (request.action \in ActionsOf(offers[i].handler) /\ ~offers[i].success)
              => /\ Len(offers) = Len(requestHandlers)
                 /\ \A j \in (i + 1)..Len(offers) :
                      offers[j].calls = <<>> /\ ~offers[j].wrote

\* The range capability comes first and its callback fails a setRangeValue
\* request; the thermostat, with a callback of its own, is offered it next.
C17_Witness ==
  /\ AfterDispatch
  /\ requestHandlers = <<"handleRangeController", "handleThermostatController">>
  /\ request.action = "setRangeValue"
  /\ targetTemperatureCallback # Null
  /\ Len(offers) = 2
  /\ offers[1].calls # <<>>
  /\ offers[1].wrote
  /\ ~offers[1].success
  /\ offers[2].calls = <<>>
  /\ ~offers[2].wrote
  /\ success = FALSE

\* The members an on<Action> method (either overload) stores into.
SlotsOfOp(op) ==
  CASE op = "onThermostatMode" -> {"thermostatModeCallback"}
    [] op = "onTargetTemperature" -> {"targetTemperatureCallback"}
    [] op = "onAdjustTargetTemperature" -> {"adjustTargetTemperatureCallback"}
    [] op = "onRangeValue" -> {"setRangeValueCallback", "genericSetRangeValueCallback"}
    [] op = "onAdjustRangeValue" -> {"adjustRangeValueCallback",
                                     "genericAdjustRangeValueCallback"}
\* The callback stored for a key (Null: none).
Stored(k) ==
  CASE k[1] = "thermostatModeCallback" -> thermostatModeCallback
    [] k[1] = "targetTemperatureCallback" -> targetTemperatureCallback
    [] k[1] = "adjustTargetTemperatureCallback" -> adjustTargetTemperatureCallback
    [] k[1] = "setRangeValueCallback" -> setRangeValueCallback
    [] k[1] = "adjustRangeValueCallback" -> adjustRangeValueCallback
    [] k[1] = "genericSetRangeValueCallback" ->
         IF k[2] \in DOMAIN genericSetRangeValueCallback
         THEN genericSetRangeValueCallback[k[2]] ELSE Null
    [] k[1] = "genericAdjustRangeValueCallback" ->
         IF k[2] \in DOMAIN genericAdjustRangeValueCallback
         THEN genericAdjustRangeValueCallback[k[2]] ELSE Null

(* C18: a step of an on<Action> method names one (action, instance) key;   *)
(* the callback stored for every other key is after the step what it was   *)
(* before it: the other members, the entries of the other instance names   *)
(* and the callbacks of the other action, the one for the same instance    *)
(* name included.  A key whose stored callback did change belongs to the   *)
(* method called, and the step leaves the request and the handler list     *)
(* alone.                                                                  *)
C18_RegistrationIndependence ==
  [][lastOp' \in RegisterOps
       => /\ Cardinality({k \in Keys : lastRegistered'[k] # lastRegistered[k]}) <= 1
          /\ \A k \in Keys :
               /\ lastRegistered'[k] = lastRegistered[k] => Stored(k)' = Stored(k)
               /\ Stored(k)' # Stored(k) => k[1] \in SlotsOfOp(lastOp')
          /\ DOMAIN genericSetRangeValueCallback \subseteq DOMAIN genericSetRangeValueCallback'
          /\ DOMAIN genericAdjustRangeValueCallback
               \subseteq DOMAIN genericAdjustRangeValueCallback'
          /\ request' = request
          /\ requestHandlers' = requestHandlers]_vars

\* onAdjustRangeValue("instance2", cb2) has left the entry of instance1 alone.
C18_Witness ==
  /\ lastOp = "onAdjustRangeValue"
  /\ DOMAIN genericAdjustRangeValueCallback = {"instance1", "instance2"}
  /\ genericAdjustRangeValueCallback["instance1"] = "cb1"
  /\ genericAdjustRangeValueCallback["instance2"] = "cb2"
  /\ lastRegistered[<<"genericAdjustRangeValueCallback", "instance2">>] = "cb2"

====
